---------------------------- MODULE Spec2Model ----------------------------
(***************************************************************************)
(* Model of the news-report application: the Redis-backed report store     *)
(* (mvc.py, class Model), the console controller (mvc.py, class           *)
(* Controller) and the decorator chain that renders a report (report.py).  *)
(*                                                                         *)
(* A Python string is a sequence of one-character strings, so that join,  *)
(* split, str() and int() are computed and not assumed.  Literal pieces of *)
(* the report text ("Title: ", the row of asterisks) are single tokens.    *)
(* The log sinks (logger.py) are not part of the state.                    *)
(***************************************************************************)
EXTENDS Integers, Sequences, FiniteSets, TLC

(***************************************************************************)
(* Bounds of the model.                                                    *)
(***************************************************************************)
\* create calls the single-process application may make
MaxReports == 2
\* search terms (title and all together) the user enters in one session
MaxTerms == 2
\* create calls started by the concurrent writers
MaxCreates == 2

(***************************************************************************)
(* Values.                                                                 *)
(***************************************************************************)
\* Python's None: a one-token sequence that is no string of characters
None == <<"<None>">>
\* no exception was raised
NoError == ""

\* a file that does not exist
Absent == <<"<absent>">>

Comma == ","

\* what the user can type at the prompts of View
\* (name, source id) pairs for View.create_report
ReportHeads ==
  {[report_name |-> <<"n">>, source_id |-> <<"s">>],
   [report_name |-> <<"m">>, source_id |-> <<"t">>]}
Terms == {<<>>, <<"a">>}

Digits == <<"0", "1", "2", "3", "4", "5", "6", "7", "8", "9">>

\* str(n) for n >= 0
RECURSIVE StrNat(_)
StrNat(n) ==
  IF n < 10 THEN <<Digits[n + 1]>>
  ELSE StrNat(n \div 10) \o <<Digits[(n % 10) + 1]>>

\* str(n) of a Python int
Str(n) == IF n < 0 THEN <<"-">> \o StrNat(0 - n) ELSE StrNat(n)

DigitVal(c) == (CHOOSE d \in 1..10 : Digits[d] = c) - 1

\* int(s) of a string of decimal digits
RECURSIVE ParseInt(_)
ParseInt(s) ==
  IF Len(s) = 0 THEN 0
  ELSE 10 * ParseInt(SubSeq(s, 1, Len(s) - 1)) + DigitVal(s[Len(s)])

\* ','.join(list)
RECURSIVE Join(_)
Join(list) ==
  IF Len(list) = 0 THEN <<>>
  ELSE IF Len(list) = 1 THEN list[1]
  ELSE list[1] \o <<Comma>> \o Join(Tail(list))

\* s.split(","): never empty, "" splits to [""]
RECURSIVE Split(_)
Split(s) ==
  IF \E i \in 1..Len(s) : s[i] = Comma
  THEN LET i == CHOOSE j \in 1..Len(s) :
                  s[j] = Comma /\ \A k \in 1..(j - 1) : s[k] # Comma
       IN  <<SubSeq(s, 1, i - 1)>> \o Split(SubSeq(s, i + 1, Len(s)))
  ELSE <<s>>

(***************************************************************************)
(* The Redis database: string keys (dbStr) and hash keys (dbHash).  A key  *)
(* that was never written is not in the domain.                            *)
(***************************************************************************)
KeyCount == <<"report:", "count">>

\* "report:" + str(count)
ReportKey(n) == <<"report:">> \o Str(n)

FieldNames == {"report_name", "source_id", "title_search_terms", "all_search_terms"}

\* dbconn.get(key)
DbGet(str, key) == IF key \in DOMAIN str THEN str[key] ELSE None

\* dbconn.set(key, value): redis stores the decimal text of an int
DbSet(str, key, value) ==
  [k \in (DOMAIN str) \cup {key} |-> IF k = key THEN value ELSE str[k]]

\* hget that answers "" for what is not there
HGetEmptyWhenMissing(hash, key, field) ==
  IF key \in DOMAIN hash /\ field \in DOMAIN hash[key]
  THEN hash[key][field] ELSE <<>>

\* dbconn.hget(key, field)
HGet(hash, key, field) ==
  IF key \in DOMAIN hash /\ field \in DOMAIN hash[key]
  THEN hash[key][field] ELSE None

\* hset that replaces the whole hash by the one field
HSetReplace(hash, key, field, value) ==
  [k \in (DOMAIN hash) \cup {key} |->
     IF k = key THEN [f \in {field} |-> value] ELSE hash[k]]

\* dbconn.hset(key, field, value): creates the hash when the key is new
HSet(hash, key, field, value) ==
  [k \in (DOMAIN hash) \cup {key} |->
     IF k = key
     THEN [f \in (IF key \in DOMAIN hash THEN DOMAIN hash[key] ELSE {}) \cup {field} |->
             IF f = field THEN value ELSE hash[key][f]]
     ELSE hash[k]]

EmptyDb == [k \in {} |-> None]

(***************************************************************************)
(* Model.create_report, Model.get_report_names, Model.get_report_data as   *)
(* functions of the database.                                              *)
(***************************************************************************)
\* the counter written back without the increment
NextCountNoIncrement(read) == IF read = None THEN 1 ELSE ParseInt(read)

\* the count create_report persists, from what get("report:count") gave
NextCount(read) == IF read = None THEN 1 ELSE ParseInt(read) + 1

\* create_report without its last hset
WriteFieldsNoAll(hash, key, name, source, tts, ats) ==
  HSet(HSet(HSet(hash, key, "report_name", name),
            key, "source_id", source),
       key, "title_search_terms", tts)

\* the four hset calls of create_report, in the order of the code
WriteFields(hash, key, name, source, tts, ats) ==
  HSet(HSet(HSet(HSet(hash, key, "report_name", name),
                 key, "source_id", source),
            key, "title_search_terms", tts),
       key, "all_search_terms", ats)

\* the while loop of get_report_names from i up to count
RECURSIVE NamesFrom(_, _, _)
NamesFrom(hash, i, count) ==
  IF i <= count
  THEN <<HGet(hash, ReportKey(i), "report_name")>> \o NamesFrom(hash, i + 1, count)
  ELSE <<>>

\* the loop written with i < count
get_report_names_short(str, hash) ==
  NamesFrom(hash, 1, ParseInt(DbGet(str, KeyCount)) - 1)

get_report_names(str, hash) == NamesFrom(hash, 1, ParseInt(DbGet(str, KeyCount)))

get_report_data(hash, report_id) ==
  [source_id          |-> HGet(hash, ReportKey(report_id), "source_id"),
   title_search_terms |-> HGet(hash, ReportKey(report_id), "title_search_terms"),
   all_search_terms   |-> HGet(hash, ReportKey(report_id), "all_search_terms")]

(***************************************************************************)
(* The article source (News API) and the text of each stage (report.py).   *)
(***************************************************************************)
\* an article: every field is a string or None
Art1 == [title |-> <<"T">>, description |-> None, author |-> <<"A">>, content |-> None]

\* what one query can return
ArticleLists == {<<>>, <<Art1>>}

\* str(x) of a string or None
PyStr(x) == IF x = None THEN <<"N", "o", "n", "e">> ELSE x

Separator == <<"****************************************">>

\* the for loop of ReportBase.report_text
RECURSIVE HeadlineBlocks(_)
HeadlineBlocks(articles) ==
  IF Len(articles) = 0 THEN <<>>
  ELSE <<"Title: ">> \o PyStr(articles[1].title) \o <<"\n">>
       \o <<"Description: ">> \o PyStr(articles[1].description) \o <<"\n\n">>
       \o HeadlineBlocks(Tail(articles))

\* the for loop of ReportTitleSearch.report_text
RECURSIVE TitleBlocks(_)
TitleBlocks(articles) ==
  IF Len(articles) = 0 THEN <<>>
  ELSE <<"Title: ">> \o PyStr(articles[1].title) \o <<"\n">>
       \o <<"Author: ">> \o PyStr(articles[1].author) \o <<"\n\n">>
       \o TitleBlocks(Tail(articles))

\* the for loop of ReportAllSearch.report_text
RECURSIVE AllBlocks(_)
AllBlocks(articles) ==
  IF Len(articles) = 0 THEN <<>>
  ELSE <<"Title: ">> \o PyStr(articles[1].title) \o <<"\n">>
       \o <<"Content: ">> \o PyStr(articles[1].content) \o <<"\n\n">>
       \o AllBlocks(Tail(articles))

\* ReportBase.report_text once the headlines are there
BaseText(source, articles) ==
  <<"Headlines from ">> \o source \o <<"\n\n">> \o HeadlineBlocks(articles)

\* what ReportTitleSearch.report_text adds to the inner text
TitleSearchBlock(term, articles) ==
  Separator \o <<"\n\nSearch results for '">> \o term
  \o <<"' in the title only: \n\n">> \o TitleBlocks(articles)

\* what ReportAllSearch.report_text adds to the inner text
AllSearchBlock(term, articles) ==
  Separator \o <<"\n\nSearch results for '">> \o term
  \o <<"' in the title or content: \n\n">> \o AllBlocks(articles)

\* the block put in front of the inner text
ExtendInFront(report_text, block) == block \o report_text

\* report_text = report_text + ...
Extend(report_text, block) == report_text \o block

\* the query a stage sends to the News API
QueryOf(stage) ==
  IF stage.kind = "base"
  THEN [call |-> "get_top_headlines", sources |-> stage.source_id,
        filter |-> "none", term |-> <<>>]
  ELSE [call |-> "get_everything", sources |-> stage.source_id,
        filter |-> IF stage.kind = "title" THEN "qintitle" ELSE "q",
        term |-> stage.search_term]

\* a query sent ahead of the ones already sent
IssueInFront(log, query) == <<query>> \o log

\* the News API receives one more query
Issue(log, query) == Append(log, query)

(***************************************************************************)
(* The decorator chain Controller.__print_report builds: chain[1] is the   *)
(* ReportBase, chain[k] wraps chain[k - 1], the last one is `report`.      *)
(***************************************************************************)
Stage(kind, source, term) == [kind |-> kind, source_id |-> source, search_term |-> term]

\* the list the decorating loop runs over: no loop at all for ""
TermList(stored) == IF Len(stored) # 0 THEN Split(stored) ELSE <<>>

Wrap(chain, kind, source, list) ==
  chain \o [i \in 1..Len(list) |-> Stage(kind, source, list[i])]

BuildChain(source, tts, ats) ==
  Wrap(Wrap(<<Stage("base", source, <<>>)>>, "title", source, TermList(tts)),
       "all", source, TermList(ats))

\* report_names[report_id - 1] of a Python list
PyIndexOk(list, idx) == (0 - Len(list)) <= idx /\ idx <= Len(list) - 1
PyIndex(list, idx) == IF idx >= 0 THEN list[idx + 1] ELSE list[Len(list) + idx + 1]

(***************************************************************************)
(* State.                                                                  *)
(***************************************************************************)
VARIABLES
  dbStr,      \* redis string keys: "report:count"
  dbHash,     \* redis hashes: "report:<id>" -> field -> value
  file,       \* content of the output file, or Absent
  pc,         \* where the single-process application stands
  err,        \* the exception that ended the process, or NoError
  cr,         \* locals of Controller.__create_report
  mcr,        \* locals of Model.create_report when it returns, and its result
  pr,         \* locals of Controller.__print_report
  chain,      \* the decorated report of __print_report, inner to outer
  sp,         \* the stage of the chain whose report_text is running
  text,       \* the report_text returned by the stage below sp
  queries,    \* the queries the News API received during this render
  results,    \* what it answered, in order
  created,    \* history: the inputs of every create the application made
  before,     \* history: the output file as it was when __print_report began
  wpc,        \* concurrent writers: position in Model.create_report
  wfr,        \* concurrent writers: locals of Model.create_report
  rpc,        \* concurrent reader: position
  rfr,        \* concurrent reader: locals
  started,    \* create calls the concurrent writers have started
  overlap     \* two concurrent create calls have been in progress together

storeVars == <<dbStr, dbHash, file>>
appVars == <<pc, err, cr, mcr, pr, chain, sp, text, queries, results, created,
            before>>
concVars == <<wpc, wfr, rpc, rfr, started, overlap>>
vars == <<dbStr, dbHash, file, pc, err, cr, mcr, pr, chain, sp, text, queries,
          results, created, before, wpc, wfr, rpc, rfr, started, overlap>>

Writers == {"w1", "w2"}

NoCr == [report_name |-> None, source_id |-> None,
         title_search_terms |-> <<>>, all_search_terms |-> <<>>]
NoMcr == [read |-> None, count |-> 0, report_key |-> None, ret |-> None]
NoPr == [report_names |-> <<>>, report_id |-> 0, source_id |-> None,
         title_search_terms |-> None, all_search_terms |-> None]
NoWfr == [report_name |-> None, source_id |-> None, title_search_terms |-> None,
          all_search_terms |-> None, read |-> None, count |-> 0,
          report_key |-> None]
NoRfr == [count |-> 0, i |-> 0, report_names |-> <<>>, report_id |-> 0,
          source_id |-> None, title_search_terms |-> None,
          all_search_terms |-> None]

\* main.py: a fresh process on an empty database, no output file yet
Init ==
  /\ dbStr = EmptyDb
  /\ dbHash = EmptyDb
  /\ file = Absent
  /\ pc = "main"
  /\ err = NoError
  /\ cr = NoCr
  /\ mcr = NoMcr
  /\ pr = NoPr
  /\ chain = <<>>
  /\ sp = 0
  /\ text = <<>>
  /\ queries = <<>>
  /\ results = <<>>
  /\ created = <<>>
  /\ before = Absent
  /\ wpc = [w \in Writers |-> "idle"]
  /\ wfr = [w \in Writers |-> NoWfr]
  /\ rpc = "idle"
  /\ rfr = NoRfr
  /\ started = 0
  /\ overlap = FALSE

renderVars == <<chain, sp, text, queries, results>>

\* an uncaught exception leaves Controller.run and ends the process
Raise(e) == pc' = "crashed" /\ err' = e

(***************************************************************************)
(* Controller.run and Controller.__create_report.                          *)
(***************************************************************************)
\* View.main_page and the dispatch of run
MainPage ==
  /\ pc = "main"
  /\ \/ Len(created) < MaxReports /\ pc' = "cr_view"
     \/ pc' = "pr_names"
     \/ pc' = "exited"
  /\ UNCHANGED <<storeVars, err, cr, mcr, pr, renderVars, created, before, concVars>>

\* View.create_report: the name and the source id
ViewCreateReport ==
  /\ pc = "cr_view"
  /\ \E head \in ReportHeads :
       cr' = [NoCr EXCEPT !.report_name = head.report_name,
                          !.source_id = head.source_id]
  /\ pc' = "cr_add"
  /\ UNCHANGED <<storeVars, err, mcr, pr, renderVars, created, before, concVars>>

\* the terms entered so far, in this report and in the ones before it
RECURSIVE TermsIn(_)
TermsIn(reports) ==
  IF Len(reports) = 0 THEN 0
  ELSE Len(reports[1].title_search_terms) + Len(reports[1].all_search_terms)
       + TermsIn(Tail(reports))

TermsEntered == TermsIn(created) + TermsIn(<<cr>>)

\* add_to_report option 1
AddTitleTerm ==
  /\ pc = "cr_add"
  /\ TermsEntered < MaxTerms
  /\ \E search_term \in Terms :
       cr' = [cr EXCEPT !.title_search_terms = Append(@, search_term)]
  /\ UNCHANGED <<storeVars, pc, err, mcr, pr, renderVars, created, before, concVars>>

\* add_to_report option 2
AddAllTerm ==
  /\ pc = "cr_add"
  /\ TermsEntered < MaxTerms
  /\ \E search_term \in Terms :
       cr' = [cr EXCEPT !.all_search_terms = Append(@, search_term)]
  /\ UNCHANGED <<storeVars, pc, err, mcr, pr, renderVars, created, before, concVars>>

\* add_to_report option 3: Model.create_report with the joined lists, run
\* to its end; it has no return statement, so the call yields None
FinishCreate ==
  /\ pc = "cr_add"
  /\ LET read == DbGet(dbStr, KeyCount)
         count == NextCount(read)
         report_key == ReportKey(count)
     IN  /\ dbStr' = DbSet(dbStr, KeyCount, Str(count))
         /\ dbHash' = WriteFields(dbHash, report_key, cr.report_name, cr.source_id,
                                  Join(cr.title_search_terms),
                                  Join(cr.all_search_terms))
         /\ mcr' = [read |-> read, count |-> count, report_key |-> report_key,
                    ret |-> None]
  /\ created' = Append(created, cr)
  /\ pc' = "cr_done"
  /\ UNCHANGED <<file, err, cr, pr, renderVars, before, concVars>>

\* __create_report breaks out of its loop and returns to run
CreateReturn ==
  /\ pc = "cr_done"
  /\ pc' = "main"
  /\ cr' = NoCr
  /\ mcr' = NoMcr
  /\ UNCHANGED <<storeVars, err, pr, renderVars, created, before, concVars>>

(***************************************************************************)
(* Controller.__print_report.                                              *)
(***************************************************************************)
ReportIds == (0 - 1)..(MaxReports + 1)

\* get_report_names that takes an absent counter for 0 and returns []
PrintGetNamesAbsentAsZero ==
  /\ pc = "pr_names"
  /\ pr' = [NoPr EXCEPT !.report_names =
               IF DbGet(dbStr, KeyCount) = None THEN <<>>
               ELSE NamesFrom(dbHash, 1, ParseInt(DbGet(dbStr, KeyCount)))]
  /\ pc' = "pr_view"
  /\ UNCHANGED <<storeVars, err, cr, mcr, renderVars, created, before, concVars>>

\* line 135: get_report_names; int(None) raises when the counter is absent
PrintGetNames ==
  /\ pc = "pr_names"
  /\ \/ /\ DbGet(dbStr, KeyCount) = None
        /\ Raise("TypeError")
        /\ pr' = pr
     \/ /\ DbGet(dbStr, KeyCount) # None
        /\ pr' = [NoPr EXCEPT !.report_names = get_report_names(dbStr, dbHash)]
        /\ pc' = "pr_view"
        /\ err' = err
  /\ UNCHANGED <<storeVars, cr, mcr, renderVars, created, before, concVars>>

\* lines 136-137: View.print_report, then report_names[report_id - 1]
ViewPrintReport ==
  /\ pc = "pr_view"
  /\ \E report_id \in ReportIds :
       /\ pr' = [pr EXCEPT !.report_id = report_id]
       /\ \/ /\ ~PyIndexOk(pr.report_names, report_id - 1)
             /\ Raise("IndexError")
          \/ /\ PyIndexOk(pr.report_names, report_id - 1)
             /\ PyIndex(pr.report_names, report_id - 1) = None
             /\ Raise("TypeError")
          \/ /\ PyIndexOk(pr.report_names, report_id - 1)
             /\ PyIndex(pr.report_names, report_id - 1) # None
             /\ pc' = "pr_get"
             /\ err' = err
  /\ UNCHANGED <<storeVars, cr, mcr, renderVars, created, before, concVars>>

\* lines 143-144: get_report_data
PrintGetData ==
  /\ pc = "pr_get"
  /\ LET d == get_report_data(dbHash, pr.report_id)
     IN  pr' = [pr EXCEPT !.source_id = d.source_id,
                          !.title_search_terms = d.title_search_terms,
                          !.all_search_terms = d.all_search_terms]
  /\ pc' = "pr_build"
  /\ UNCHANGED <<storeVars, err, cr, mcr, renderVars, created, before, concVars>>

\* lines 145-153: the base report and its decorators; len(None) raises
PrintBuild ==
  /\ pc = "pr_build"
  /\ \/ /\ pr.title_search_terms = None \/ pr.all_search_terms = None
        /\ Raise("TypeError")
        /\ chain' = chain
     \/ /\ pr.title_search_terms # None /\ pr.all_search_terms # None
        /\ chain' = BuildChain(pr.source_id, pr.title_search_terms,
                               pr.all_search_terms)
        /\ pc' = "pr_open"
        /\ err' = err
  /\ UNCHANGED <<storeVars, cr, mcr, pr, sp, text, queries, results, created,
                 before, concVars>>

\* line 157: open(output_filename, "w") creates or truncates the file
\* before report.report_text() is evaluated on the outermost stage
PrintOpen ==
  /\ pc = "pr_open"
  /\ file' = <<>>
  /\ sp' = Len(chain)
  /\ pc' = "rt_down"
  /\ UNCHANGED <<dbStr, dbHash, err, cr, mcr, pr, chain, text, queries, results,
                 created, before, concVars>>

\* report.py 70, 91: a decorator first calls report_text of what it wraps
ReportTextCall ==
  /\ pc = "rt_down"
  /\ sp > 1
  /\ sp' = sp - 1
  /\ UNCHANGED <<storeVars, pc, err, cr, mcr, pr, chain, text, queries, results,
                 created, before, concVars>>

\* report.py 41-47: ReportBase.report_text
ReportBaseText ==
  /\ pc = "rt_down"
  /\ sp = 1
  /\ queries' = Issue(queries, QueryOf(chain[1]))
  /\ \/ /\ Raise("NewsAPIException")
        /\ UNCHANGED <<text, results, sp>>
     \/ \E articles \in ArticleLists :
          /\ results' = Append(results, articles)
          /\ text' = BaseText(chain[1].source_id, articles)
          /\ sp' = 2
          /\ pc' = "rt_up"
          /\ err' = err
  /\ UNCHANGED <<storeVars, cr, mcr, pr, chain, created, before, concVars>>

\* report.py 71-80, 92-101: a decorator, once the inner text is back
ReportExtensionText ==
  /\ pc = "rt_up"
  /\ sp <= Len(chain)
  /\ queries' = Issue(queries, QueryOf(chain[sp]))
  /\ \/ /\ Raise("NewsAPIException")
        /\ UNCHANGED <<text, results, sp>>
     \/ \E articles \in ArticleLists :
          /\ results' = Append(results, articles)
          /\ text' = Extend(text,
                            IF chain[sp].kind = "title"
                            THEN TitleSearchBlock(chain[sp].search_term, articles)
                            ELSE AllSearchBlock(chain[sp].search_term, articles))
          /\ sp' = sp + 1
          /\ UNCHANGED <<pc, err>>
  /\ UNCHANGED <<storeVars, cr, mcr, pr, chain, created, before, concVars>>

\* line 158: output_file.write(<the text of the outermost stage>)
PrintWrite ==
  /\ pc = "rt_up"
  /\ sp = Len(chain) + 1
  /\ file' = text
  /\ pc' = "pr_close"
  /\ UNCHANGED <<dbStr, dbHash, err, cr, mcr, pr, renderVars, created, before, concVars>>

\* lines 159-166: close, and back to run
PrintReturn ==
  /\ pc = "pr_close"
  /\ pc' = "main"
  /\ pr' = NoPr
  /\ chain' = <<>>
  /\ sp' = 0
  /\ text' = <<>>
  /\ queries' = <<>>
  /\ results' = <<>>
  /\ before' = file
  /\ UNCHANGED <<storeVars, err, cr, mcr, created, concVars>>

Next ==
  \/ MainPage
  \/ ViewCreateReport
  \/ AddTitleTerm
  \/ AddAllTerm
  \/ FinishCreate
  \/ CreateReturn
  \/ PrintGetNames
  \/ ViewPrintReport
  \/ PrintGetData
  \/ PrintBuild
  \/ PrintOpen
  \/ ReportTextCall
  \/ ReportBaseText
  \/ ReportExtensionText
  \/ PrintWrite
  \/ PrintReturn

Spec == Init /\ [][Next]_vars

(***************************************************************************)
(* Several clients of one database: two writers inside Model.create_report *)
(* and a reader inside Model.get_report_names or Model.get_report_data,    *)
(* one redis command at a time.                                            *)
(***************************************************************************)
\* the arguments of a create_report call (the term lists arrive joined):
\* two definitions that differ in every field
ConcInputs ==
  {[report_name |-> <<"n">>, source_id |-> <<"s">>,
    title_search_terms |-> Join(<<>>),
    all_search_terms |-> Join(<<<<"a">>, <<"a">>>>)],
   [report_name |-> <<"m">>, source_id |-> <<"t">>,
    title_search_terms |-> Join(<<<<"a">>>>),
    all_search_terms |-> Join(<<>>)]}

ConcIds == 0..(MaxCreates + 1)

\* create_report is called
WCall(w) ==
  /\ wpc[w] = "idle"
  /\ started < MaxCreates
  /\ \E in \in ConcInputs :
       wfr' = [wfr EXCEPT ![w] =
                 [NoWfr EXCEPT !.report_name = in.report_name,
                               !.source_id = in.source_id,
                               !.title_search_terms = in.title_search_terms,
                               !.all_search_terms = in.all_search_terms]]
  /\ wpc' = [wpc EXCEPT ![w] = "get"]
  /\ started' = started + 1
  /\ overlap' = (overlap \/ \E o \in Writers \ {w} : wpc[o] # "idle")
  /\ UNCHANGED <<storeVars, appVars, rpc, rfr>>

\* lines 191-195: read the counter, add one
WGet(w) ==
  /\ wpc[w] = "get"
  /\ LET read == DbGet(dbStr, KeyCount)
     IN  wfr' = [wfr EXCEPT ![w].read = read, ![w].count = NextCount(read)]
  /\ wpc' = [wpc EXCEPT ![w] = "set"]
  /\ UNCHANGED <<storeVars, appVars, rpc, rfr, started, overlap>>

\* lines 196-197: persist the counter, derive the key
WSet(w) ==
  /\ wpc[w] = "set"
  /\ dbStr' = DbSet(dbStr, KeyCount, Str(wfr[w].count))
  /\ wfr' = [wfr EXCEPT ![w].report_key = ReportKey(wfr[w].count)]
  /\ wpc' = [wpc EXCEPT ![w] = "hset_name"]
  /\ UNCHANGED <<dbHash, file, appVars, rpc, rfr, started, overlap>>

\* one of the hset calls of lines 198-201
WHset(w, at, field, value, then) ==
  /\ wpc[w] = at
  /\ dbHash' = HSet(dbHash, wfr[w].report_key, field, value)
  /\ wpc' = [wpc EXCEPT ![w] = then]
  /\ UNCHANGED <<dbStr, file, appVars, wfr, rpc, rfr, started, overlap>>

WHsetName(w) ==
  WHset(w, "hset_name", "report_name", wfr[w].report_name, "hset_source")
WHsetSource(w) ==
  WHset(w, "hset_source", "source_id", wfr[w].source_id, "hset_title")
WHsetTitle(w) ==
  WHset(w, "hset_title", "title_search_terms", wfr[w].title_search_terms, "hset_all")
WHsetAll(w) ==
  WHset(w, "hset_all", "all_search_terms", wfr[w].all_search_terms, "ret")

\* create_report returns: its locals are gone
WReturn(w) ==
  /\ wpc[w] = "ret"
  /\ wpc' = [wpc EXCEPT ![w] = "idle"]
  /\ wfr' = [wfr EXCEPT ![w] = NoWfr]
  /\ UNCHANGED <<storeVars, appVars, rpc, rfr, started, overlap>>

\* line 207: int(get("report:count")); int(None) raises
RNamesCall ==
  /\ rpc = "idle"
  /\ \/ /\ DbGet(dbStr, KeyCount) = None
        /\ rpc' = "raised"
        /\ rfr' = rfr
     \/ /\ DbGet(dbStr, KeyCount) # None
        /\ rfr' = [NoRfr EXCEPT !.count = ParseInt(DbGet(dbStr, KeyCount)), !.i = 1]
        /\ rpc' = "names"
  /\ UNCHANGED <<storeVars, appVars, wpc, wfr, started, overlap>>

\* lines 210-213: one turn of the loop
RNamesLoop ==
  /\ rpc = "names"
  /\ rfr.i <= rfr.count
  /\ rfr' = [rfr EXCEPT
               !.report_names =
                  Append(@, HGet(dbHash, ReportKey(rfr.i), "report_name")),
               !.i = @ + 1]
  /\ UNCHANGED <<storeVars, appVars, wpc, wfr, rpc, started, overlap>>

\* line 215: the loop is over, the list is returned
RNamesDone ==
  /\ rpc = "names"
  /\ rfr.i > rfr.count
  /\ rpc' = "names_ret"
  /\ UNCHANGED <<storeVars, appVars, wpc, wfr, rfr, started, overlap>>

\* get_report_data is called
RDataCall ==
  /\ rpc = "idle"
  /\ \E report_id \in ConcIds : rfr' = [NoRfr EXCEPT !.report_id = report_id]
  /\ rpc' = "hget_source"
  /\ UNCHANGED <<storeVars, appVars, wpc, wfr, started, overlap>>

\* lines 221-223: the three hget calls
RHgetSource ==
  /\ rpc = "hget_source"
  /\ rfr' = [rfr EXCEPT !.source_id =
               HGet(dbHash, ReportKey(rfr.report_id), "source_id")]
  /\ rpc' = "hget_title"
  /\ UNCHANGED <<storeVars, appVars, wpc, wfr, started, overlap>>

RHgetTitle ==
  /\ rpc = "hget_title"
  /\ rfr' = [rfr EXCEPT !.title_search_terms =
               HGet(dbHash, ReportKey(rfr.report_id), "title_search_terms")]
  /\ rpc' = "hget_all"
  /\ UNCHANGED <<storeVars, appVars, wpc, wfr, started, overlap>>

RHgetAll ==
  /\ rpc = "hget_all"
  /\ rfr' = [rfr EXCEPT !.all_search_terms =
               HGet(dbHash, ReportKey(rfr.report_id), "all_search_terms")]
  /\ rpc' = "data_ret"
  /\ UNCHANGED <<storeVars, appVars, wpc, wfr, started, overlap>>

\* the reader's call returns
RReturn ==
  /\ rpc \in {"names_ret", "data_ret"}
  /\ rpc' = "idle"
  /\ rfr' = NoRfr
  /\ UNCHANGED <<storeVars, appVars, wpc, wfr, started, overlap>>

NextConc ==
  \/ \E w \in Writers : WCall(w)
  \/ \E w \in Writers : WGet(w)
  \/ \E w \in Writers : WSet(w)
  \/ \E w \in Writers : WHsetName(w)
  \/ \E w \in Writers : WHsetSource(w)
  \/ \E w \in Writers : WHsetTitle(w)
  \/ \E w \in Writers : WHsetAll(w)
  \/ \E w \in Writers : WReturn(w)
  \/ RNamesCall
  \/ RNamesLoop
  \/ RNamesDone
  \/ RDataCall
  \/ RHgetSource
  \/ RHgetTitle
  \/ RHgetAll
  \/ RReturn

SpecConc == Init /\ [][NextConc]_vars

(***************************************************************************)
(* What the properties below are stated with.                              *)
(***************************************************************************)
\* the stored counter as a number, an absent counter read as 0 (as create does)
CountValue == IF DbGet(dbStr, KeyCount) = None THEN 0 ELSE ParseInt(DbGet(dbStr, KeyCount))

\* the record create_report is given for one entry of the history
RecordOf(c) ==
  [f \in FieldNames |->
     CASE f = "report_name" -> c.report_name
       [] f = "source_id" -> c.source_id
       [] f = "title_search_terms" -> Join(c.title_search_terms)
       [] f = "all_search_terms" -> Join(c.all_search_terms)]

\* the terms a stored, comma-joined field holds: none when the field is empty
StoredTerms(stored) == IF stored = <<>> THEN <<>> ELSE Split(stored)

HasComma(term) == \E i \in 1..Len(term) : term[i] = Comma

\* the search terms of the stages of one kind, inner to outer
RECURSIVE TermsOfKind(_, _)
TermsOfKind(c, kind) ==
  IF Len(c) = 0 THEN <<>>
  ELSE (IF c[1].kind = kind THEN <<c[1].search_term>> ELSE <<>>)
       \o TermsOfKind(Tail(c), kind)

\* the block of stage number k (k >= 2) of a report with title terms tl and
\* all-search terms al, for the articles its query returned
BlockOf(k, tl, al, articles) ==
  IF k - 1 <= Len(tl)
  THEN TitleSearchBlock(tl[k - 1], articles)
  ELSE AllSearchBlock(al[k - 1 - Len(tl)], articles)

\* base text, then the blocks of stages 2..k in that order
RECURSIVE TextUpTo(_, _, _, _, _)
TextUpTo(k, source, tl, al, res) ==
  IF k = 0 THEN <<>>
  ELSE IF k = 1 THEN BaseText(source, res[1])
  ELSE TextUpTo(k - 1, source, tl, al, res) \o BlockOf(k, tl, al, res[k])

\* the query of stage number k
QueryNo(k, source, tl, al) ==
  IF k = 1
  THEN [call |-> "get_top_headlines", sources |-> source, filter |-> "none",
        term |-> <<>>]
  ELSE IF k - 1 <= Len(tl)
  THEN [call |-> "get_everything", sources |-> source, filter |-> "qintitle",
        term |-> tl[k - 1]]
  ELSE [call |-> "get_everything", sources |-> source, filter |-> "q",
        term |-> al[k - 1 - Len(tl)]]

\* the record __print_report is printing, and its stored term lists
Printed == dbHash[ReportKey(pr.report_id)]
PrintedTitle == StoredTerms(Printed["title_search_terms"])
PrintedAll == StoredTerms(Printed["all_search_terms"])

Rendering == pc \in {"rt_down", "rt_up", "pr_close"}

(***************************************************************************)
(* Properties of the single-process application (Spec).                    *)
(***************************************************************************)

\* C1: a definition created with term lists free of commas reads back, through
\* get on the id create assigned and the split of __print_report, as the same
\* source id and the same two term lists, element for element and in order
\* (an empty list comes back empty).
C1_RoundTrip ==
  (pc = "pr_open" /\ pr.report_id \in 1..Len(created)
     /\ (\A i \in 1..Len(created[pr.report_id].title_search_terms) :
           ~HasComma(created[pr.report_id].title_search_terms[i]))
     /\ (\A j \in 1..Len(created[pr.report_id].all_search_terms) :
           ~HasComma(created[pr.report_id].all_search_terms[j])))
  => /\ chain[1].source_id = created[pr.report_id].source_id
     /\ TermsOfKind(chain, "title") = created[pr.report_id].title_search_terms
     /\ TermsOfKind(chain, "all") = created[pr.report_id].all_search_terms

\* C1, the part that holds: the round trip of every list but the list of one
\* empty term, which is stored as "" like the empty list.
C1_RoundTripButLoneEmpty ==
  (pc = "pr_open" /\ pr.report_id \in 1..Len(created))
  => /\ chain[1].source_id = created[pr.report_id].source_id
     /\ created[pr.report_id].title_search_terms # <<<<>>>>
          => TermsOfKind(chain, "title") = created[pr.report_id].title_search_terms
     /\ created[pr.report_id].all_search_terms # <<<<>>>>
          => TermsOfKind(chain, "all") = created[pr.report_id].all_search_terms

C3_DenseIds ==
  /\ CountValue = Len(created)
  /\ (DbGet(dbStr, KeyCount) = None) <=> (Len(created) = 0)
  /\ DOMAIN dbHash = {ReportKey(j) : j \in 1..Len(created)}
  /\ \A j \in 1..Len(created) : dbHash[ReportKey(j)] = RecordOf(created[j])

C3_Witness ==
  /\ pc = "pr_close"
  /\ Len(created) = 2
  /\ pr.report_id = 2

\* C5 as stated: create returns the new id, the count it persisted.
C5_ReturnsNewId ==
  pc = "cr_done" => (mcr.ret # None /\ mcr.ret = Str(mcr.count))

\* C5 amended: create_report returns nothing (None); the count it persisted
\* is the previous count plus one (1 when the counter was absent) and is the
\* id under whose key it stored the four fields.
C5_PersistsNewId ==
  pc = "cr_done"
  => /\ mcr.ret = None
     /\ mcr.count = Len(created)
     /\ (mcr.read = None) <=> (Len(created) = 1)
     /\ mcr.read # None => ParseInt(mcr.read) = Len(created) - 1
     /\ DbGet(dbStr, KeyCount) = Str(mcr.count)
     /\ mcr.report_key = <<"report:">> \o Str(Len(created))
     /\ mcr.report_key \in DOMAIN dbHash
     /\ dbHash[mcr.report_key] = RecordOf(cr)

C5_Witness ==
  /\ pc = "cr_done"
  /\ mcr.read # None
  /\ mcr.count = 2
  /\ Len(cr.title_search_terms) = 2

\* C6: the rendered text is the base text, then one title-search block per
\* stored title term in stored order, then one all-search block per stored
\* all-search term in stored order; with no stored term it is the base text
\* alone, without a separator line.
C6_RenderedText ==
  pc = "pr_close"
  => /\ Len(results) = 1 + Len(PrintedTitle) + Len(PrintedAll)
     /\ text = TextUpTo(Len(results), Printed["source_id"], PrintedTitle,
                        PrintedAll, results)
     /\ file = text
     /\ (Len(PrintedTitle) = 0 /\ Len(PrintedAll) = 0)
          => /\ text = BaseText(Printed["source_id"], results[1])
             /\ \A i \in 1..Len(text) : <<text[i]>> # Separator

C6_Witness ==
  /\ pc = "pr_close"
  /\ Len(PrintedTitle) = 1
  /\ Len(PrintedAll) = 1
  /\ \A i \in 1..Len(results) : Len(results[i]) > 0

\* C7: a render sends 1 + m + n queries, all of them in this render, the
\* base query first, then the title-only queries in stored order, then the
\* full-text queries in stored order, and the query of a stage goes out only
\* when the text of everything inside it is there.
C7_QueriesInnerToOuter ==
  Rendering
  => /\ \A k \in 1..Len(queries) :
          queries[k] = QueryNo(k, Printed["source_id"], PrintedTitle, PrintedAll)
     /\ pc = "rt_down" => Len(queries) = 0
     /\ pc = "rt_up" => Len(queries) = sp - 1
     /\ pc = "pr_close" => Len(queries) = 1 + Len(PrintedTitle) + Len(PrintedAll)
     /\ Len(results) = Len(queries)
     /\ text = TextUpTo(Len(queries), Printed["source_id"], PrintedTitle,
                        PrintedAll, results)

C7_Witness ==
  /\ pc = "pr_close"
  /\ Len(queries) = 3
  /\ queries[2].filter = "qintitle"
  /\ queries[3].filter = "q"
  /\ before # Absent

\* C8: when a query fails the exception leaves the program, no further query
\* is sent, and nothing of the report output is written or changed.
C8_NoPartialReport ==
  err = "NewsAPIException"
  => /\ pc = "crashed"
     /\ Len(queries) = Len(results) + 1
     /\ file = before

\* C8, the part that holds: the failure ends the process with the failed
\* query as the last one, and the output file is left empty.
C8_FailureStopsRender ==
  err = "NewsAPIException"
  => /\ pc = "crashed"
     /\ Len(queries) = Len(results) + 1
     /\ file = <<>>

ProbeIds == (0 - 2)..(MaxReports + 2)

NoData == [source_id |-> None, title_search_terms |-> None, all_search_terms |-> None]

\* C9: get_report_data on an id outside 1..count gives None for each of the
\* three fields; the call raises nothing and leaves the counter and every
\* hash as they were.
C9_GetMissing ==
  /\ [](\A id \in ProbeIds :
          id \notin 1..CountValue => get_report_data(dbHash, id) = NoData)
  /\ [][pc = "pr_get"
          => /\ pc' = "pr_build"
             /\ err' = NoError
             /\ dbStr' = dbStr
             /\ dbHash' = dbHash
             /\ pr.report_id \notin 1..CountValue
                  => /\ pr'.source_id = None
                     /\ pr'.title_search_terms = None
                     /\ pr'.all_search_terms = None]_vars

C9_Witness ==
  /\ pc = "pr_build"
  /\ pr.report_id < 1
  /\ pr.source_id = None
  /\ pr.title_search_terms = None
  /\ pr.all_search_terms = None
  /\ CountValue = 2

\* C11: with the counter absent, get_report_names raises instead of
\* returning an empty list, and leaves the counter, the hashes and the
\* output file as they were; create_report in that state reads the absent
\* counter as 0 and stores the definition under id 1.
C11_AbsentCounter ==
  [][/\ (pc = "pr_names" /\ DbGet(dbStr, KeyCount) = None)
          => /\ pc' = "crashed"
             /\ err' = "TypeError"
             /\ pr' = NoPr
             /\ dbStr' = dbStr
             /\ dbHash' = dbHash
             /\ file' = file
     /\ (pc = "cr_add" /\ pc' = "cr_done" /\ DbGet(dbStr, KeyCount) = None)
          => /\ mcr'.count = 1
             /\ mcr'.report_key = <<"report:", "1">>
             /\ DbGet(dbStr', KeyCount) = <<"1">>
             /\ DOMAIN dbHash' = {<<"report:", "1">>}
             /\ dbHash'[<<"report:", "1">>] = RecordOf(cr)]_vars

C11_Witness ==
  /\ pc = "crashed"
  /\ err = "TypeError"
  /\ DbGet(dbStr, KeyCount) = None
  /\ pr = NoPr
  /\ dbHash = EmptyDb
  /\ file = Absent

(***************************************************************************)
(* Properties of the concurrent clients (SpecConc).                        *)
(***************************************************************************)
\* C4: with one create at a time, the counter is never ahead of the data:
\* whenever it is c, report:1 .. report:c hold their four fields, a reader's
\* list holds no None, and the counter moved once per create call.
C4_CountNeverAheadOfData ==
  ~overlap
  => /\ \A i \in 1..CountValue : \A f \in FieldNames :
          HGet(dbHash, ReportKey(i), f) # None
     /\ rpc = "names_ret"
          => \A i \in 1..Len(rfr.report_names) : rfr.report_names[i] # None
     /\ CountValue = started - Cardinality({w \in Writers : wpc[w] \in {"get", "set"}})

\* C10: two create calls that read the same counter get the same id: when
\* both have finished the counter is one above what they read, not two, the
\* record at that id has each field from one of the two calls, and the
\* store holds fewer definitions than there were create calls.
C10_LostUpdate ==
  \A a \in Writers : \A b \in Writers \ {a} :
    (wpc[a] = "ret" /\ wpc[b] = "ret" /\ wfr[a].read = wfr[b].read)
    => /\ wfr[a].report_key = wfr[b].report_key
       /\ wfr[a].count = wfr[b].count
       /\ CountValue = (IF wfr[a].read = None THEN 0 ELSE ParseInt(wfr[a].read)) + 1
       /\ DOMAIN dbHash[wfr[a].report_key] = FieldNames
       /\ \A f \in FieldNames :
            dbHash[wfr[a].report_key][f] \in {wfr[a][f], wfr[b][f]}
       /\ Cardinality(DOMAIN dbHash) < started

C10_Witness ==
  /\ wpc["w1"] = "ret"
  /\ wpc["w2"] = "ret"
  /\ wfr["w1"].read = wfr["w2"].read
  /\ wfr["w1"].report_name # wfr["w2"].report_name
  /\ dbHash[wfr["w1"].report_key]["report_name"] = wfr["w1"].report_name
  /\ dbHash[wfr["w1"].report_key]["all_search_terms"] = wfr["w2"].all_search_terms
  /\ CountValue = 1

=============================================================================
